---- MODULE Spec2Model ----
(***************************************************************************)
(* A model of pagerank.py: the transition model, the sampling estimator    *)
(* and the iterative estimator.                                            *)
(*                                                                         *)
(* A corpus is a sequence of sets: page identifiers are 1..Len(corpus), in *)
(* the iteration order of the Python dict, and corpus[p] is the set of     *)
(* pages p links to.  Floating-point probabilities are fixed-point         *)
(* integers in units of 1/Scale; the damping factor is damping/DDen.       *)
(***************************************************************************)
EXTENDS Integers, Sequences, FiniteSets

VARIABLES corpus, damping, pc, error,
          page, prob_distribution,
          n, current_page, samples, samples_dict, i,
          cross_link_corpus, iterative_probablity, idx,
          ranged_sum, old_rank, page_rank, pass_start

vars == <<corpus, damping, pc, error, page, prob_distribution,
          n, current_page, samples, samples_dict, i,
          cross_link_corpus, iterative_probablity, idx,
          ranged_sum, old_rank, page_rank, pass_start>>

transitionVars == <<page, prob_distribution>>
sampleVars == <<n, current_page, samples, samples_dict, i>>
iterateVars == <<cross_link_corpus, iterative_probablity, idx,
                 ranged_sum, old_rank, page_rank, pass_start>>

(* ---------------------------- bounds ---------------------------------- *)

\* largest corpus given to transition_model
MaxPagesT == 7
\* largest corpus given to sample_pagerank
MaxPagesS == 3
\* largest corpus given to iterate_pagerank
MaxPagesI == 3
\* largest number of samples n
MaxSamples == 3

(* --------------------------- arithmetic ------------------------------- *)

\* one unit of fixed-point probability is 1/Scale
Scale == 1000000
\* damping factors are damping/DDen
DDen == 100
\* round(x, 4) keeps multiples of 1/Round4Den
Round4Den == 10000
\* the convergence threshold 0.0001 of iterate_pagerank, in units of 1/Scale
Threshold == 100

\* damping factors in (0,1): 0.5 and DAMPING = 0.85
Dampings == {50, 85}
\* damping factors outside (0,1): 0 and 1
BadDampings == {0, 100}

abs(x) == IF x < 0 THEN -x ELSE x

\* round(num/den, 4), in units of 1/Scale.  Python rounds the double to the
\* nearest multiple of 0.0001; an exact tie goes to the even neighbour here.
round4(num, den) ==
    LET q == (num * Round4Den) \div den
        r == (num * Round4Den) % den
        up == \/ 2 * r > den
              \/ 2 * r = den /\ q % 2 = 1
    IN  (IF up THEN q + 1 ELSE q) * (Scale \div Round4Den)

RECURSIVE SumSeq(_)
SumSeq(s) == IF s = <<>> THEN 0 ELSE Head(s) + SumSeq(Tail(s))

\* the keys of a corpus, in dict order
Keys(c) == 1 .. Len(c)

\* the sequence 1, 2, ..., k
RECURSIVE Upto(_)
Upto(k) == IF k = 0 THEN <<>> ELSE Append(Upto(k - 1), k)

(* ----------------------------- inputs --------------------------------- *)

\* every corpus of N pages with no self-links whose links are all keys
Corpora(N) == {c \in [1 .. N -> SUBSET (1 .. N)] : \A p \in 1 .. N : p \notin c[p]}

\* corpora of N pages in which at most one page has outbound links
StarCorpora(N) ==
    {[q \in 1 .. N |-> IF q = p THEN S ELSE {}] :
        p \in 1 .. N, S \in SUBSET (1 .. N)}

ValidCorpus(c) ==
    \A p \in Keys(c) : p \notin c[p] /\ c[p] \subseteq Keys(c)

(* ------------------------- transition_model --------------------------- *)

transition_model(c, p, d) ==
    LET N == Len(c)
        L == Cardinality(c[p])
    IN  IF L = 0
        THEN LET equal_probablity ==
                     (d * Scale) \div (DDen * N) + ((DDen - d) * Scale) \div (DDen * N)
             IN  [q \in 1 .. N |-> equal_probablity]
        ELSE LET link_probablity == round4(d, DDen * L)
                 equal_probablity == round4(DDen - d, DDen * N)
             IN  [q \in 1 .. N |->
                     IF q \in c[p] THEN equal_probablity + link_probablity
                                   ELSE equal_probablity]

NoTransition == <<>>

InitTransition ==
    /\ \E N \in 0 .. MaxPagesT :
          /\ corpus \in {c \in StarCorpora(N) : ValidCorpus(c)}
          /\ page \in 1 .. N + 1
    /\ damping \in Dampings \cup BadDampings
    /\ pc = "t_call"
    /\ error = ""
    /\ prob_distribution = NoTransition
    /\ n = 0 /\ current_page = 0 /\ samples = <<>> /\ samples_dict = <<>> /\ i = 0
    /\ cross_link_corpus = <<>> /\ iterative_probablity = <<>> /\ idx = 0
    /\ ranged_sum = 0 /\ old_rank = <<>> /\ page_rank = <<>> /\ pass_start = <<>>

\* corpus[page] of a page that is not a key raises KeyError
TransitionKeyError ==
    /\ pc = "t_call"
    /\ page \notin Keys(corpus)
    /\ pc' = "t_error"
    /\ error' = "KeyError"
    /\ UNCHANGED <<corpus, damping, transitionVars, sampleVars, iterateVars>>

TransitionReturn ==
    /\ pc = "t_call"
    /\ page \in Keys(corpus)
    /\ prob_distribution' = transition_model(corpus, page, damping)
    /\ pc' = "t_done"
    /\ UNCHANGED <<corpus, damping, error, page, sampleVars, iterateVars>>

NextTransition == TransitionKeyError \/ TransitionReturn

SpecTransition == InitTransition /\ [][NextTransition]_vars

(* -------------------------- sample_pagerank --------------------------- *)

\* a sampled rank is the quotient values / n, kept as the exact fraction
Fraction(num, den) == [num |-> num, den |-> den]

\* number of times page p was appended to the list s
RECURSIVE Count(_, _)
Count(s, p) ==
    IF s = <<>> THEN 0
    ELSE (IF Head(s) = p THEN 1 ELSE 0) + Count(Tail(s), p)

\* the pages random.choices can return: those of positive weight
Drawable(transitions) == {q \in DOMAIN transitions : transitions[q] > 0}

\* samples_dict before the division: every page 0, then one per sample
TallyMissesFirst(c, s) ==
    [q \in Keys(c) |-> IF s = <<>> THEN 0 ELSE Count(Tail(s), q)]

Tally(c, s) == [q \in Keys(c) |-> Count(s, q)]

InitSample ==
    /\ \E N \in 1 .. MaxPagesS : corpus \in Corpora(N)
    /\ damping \in Dampings
    /\ n \in 1 .. MaxSamples
    /\ pc = "s_call"
    /\ error = ""
    /\ current_page = 0 /\ samples = <<>> /\ samples_dict = <<>> /\ i = 0
    /\ page = 0 /\ prob_distribution = NoTransition
    /\ cross_link_corpus = <<>> /\ iterative_probablity = <<>> /\ idx = 0
    /\ ranged_sum = 0 /\ old_rank = <<>> /\ page_rank = <<>> /\ pass_start = <<>>

\* current_page = random.choice(list(corpus.keys()))
SampleStart ==
    /\ pc = "s_call"
    /\ current_page' \in Keys(corpus)
    /\ samples' = <<>>
    /\ i' = 0
    /\ pc' = "s_loop"
    /\ UNCHANGED <<corpus, damping, error, n, samples_dict,
                   transitionVars, iterateVars>>

\* one turn of `for i in range(n)`
SampleDraw ==
    /\ pc = "s_loop"
    /\ i < n
    /\ LET transitions == transition_model(corpus, current_page, damping)
       IN  \E next_page \in Drawable(transitions) :
              /\ samples' = Append(samples, next_page)
              /\ current_page' = next_page
    /\ i' = i + 1
    /\ UNCHANGED <<corpus, damping, pc, error, n, samples_dict,
                   transitionVars, iterateVars>>

\* the loop is over: count the samples, divide by n and return
SampleReturn ==
    /\ pc = "s_loop"
    /\ i = n
    /\ LET counts == Tally(corpus, samples)
       IN  samples_dict' = [q \in Keys(corpus) |-> Fraction(counts[q], n)]
    /\ pc' = "s_done"
    /\ UNCHANGED <<corpus, damping, error, n, current_page, samples, i,
                   transitionVars, iterateVars>>

NextSample == SampleStart \/ SampleDraw \/ SampleReturn

SpecSample == InitSample /\ [][NextSample]_vars

(* -------------------------- iterate_pagerank -------------------------- *)

\* a local variable that has not been assigned yet
Unbound == <<>>
Bound(v) == <<v>>
ValueOf(x) == x[1]

\* cross_link_corpus[p]: the keys whose links contain p, in dict order
BackLinks(c, p) == SelectSeq(Upto(Len(c)), LAMBDA k : p \in c[k])

\* (1 - damping_factor) / len(corpus)
BaseRank(c, d) == ((DDen - d) * Scale) \div (DDen * Len(c))

\* the sum accumulated by `for links in cross_link_corpus[pages]`
LinkSum(c, r, links) ==
    SumSeq([k \in 1 .. Len(links) |-> r[links[k]] \div Cardinality(c[links[k]])])

\* the sum accumulated by the inner loop of the no-backlink branch
LinkedSum(c, r) ==
    SumSeq([k \in 1 .. Len(c) |->
               IF Cardinality(c[k]) # 0 THEN r[k] \div Cardinality(c[k]) ELSE 0])

\* abs(old_rank - page_rank) < 0.0001
ConvergedLoose(old, new) == abs(old - new) < 10 * Threshold

Converged(old, new) == abs(old - new) < Threshold

InitIterate ==
    /\ \E N \in 0 .. MaxPagesI : corpus \in Corpora(N)
    /\ damping \in Dampings
    /\ pc = "i_call"
    /\ error = ""
    /\ cross_link_corpus = <<>> /\ iterative_probablity = <<>> /\ idx = 0
    /\ ranged_sum = 0 /\ old_rank = Unbound /\ page_rank = Unbound
    /\ pass_start = <<>>
    /\ page = 0 /\ prob_distribution = NoTransition
    /\ n = 0 /\ current_page = 0 /\ samples = <<>> /\ samples_dict = <<>> /\ i = 0

\* ranks start at 1 / N, the backlink table is built, the first pass begins
IterateSetup ==
    /\ pc = "i_call"
    /\ iterative_probablity' = [p \in Keys(corpus) |-> Scale \div Len(corpus)]
    /\ cross_link_corpus' = [p \in Keys(corpus) |-> BackLinks(corpus, p)]
    /\ pass_start' = iterative_probablity'
    /\ idx' = 1
    /\ pc' = "i_for"
    /\ UNCHANGED <<corpus, damping, error, ranged_sum, old_rank, page_rank,
                   transitionVars, sampleVars>>

\* a page nobody links to: the inner loop sums, then `continue`
IterateSkipPage ==
    /\ pc = "i_for"
    /\ idx \in Keys(corpus)
    /\ Len(cross_link_corpus[idx]) = 0
    /\ ranged_sum' = LinkedSum(corpus, iterative_probablity)
    /\ idx' = idx + 1
    /\ UNCHANGED <<corpus, damping, pc, error, cross_link_corpus,
                   iterative_probablity, old_rank, page_rank, pass_start,
                   transitionVars, sampleVars>>

\* a page with backlinks: its rank is recomputed in place
IterateUpdatePage ==
    /\ pc = "i_for"
    /\ idx \in Keys(corpus)
    /\ Len(cross_link_corpus[idx]) # 0
    /\ ranged_sum' = LinkSum(corpus, iterative_probablity, cross_link_corpus[idx])
    /\ page_rank' = Bound(BaseRank(corpus, damping) + (damping * ranged_sum') \div DDen)
    /\ old_rank' = Bound(iterative_probablity[idx])
    /\ iterative_probablity' =
           [iterative_probablity EXCEPT ![idx] = ValueOf(page_rank')]
    /\ idx' = idx + 1
    /\ UNCHANGED <<corpus, damping, pc, error, cross_link_corpus, pass_start,
                   transitionVars, sampleVars>>

\* the pass is over and old_rank was never assigned: UnboundLocalError
IterateUnbound ==
    /\ pc = "i_for"
    /\ idx = Len(corpus) + 1
    /\ old_rank = Unbound
    /\ pc' = "i_error"
    /\ error' = "UnboundLocalError"
    /\ UNCHANGED <<corpus, damping, iterateVars, transitionVars, sampleVars>>

\* the pass is over and the check fails: another pass
IterateNextPass ==
    /\ pc = "i_for"
    /\ idx = Len(corpus) + 1
    /\ old_rank # Unbound
    /\ ~Converged(ValueOf(old_rank), ValueOf(page_rank))
    /\ idx' = 1
    /\ pass_start' = iterative_probablity
    /\ UNCHANGED <<corpus, damping, pc, error, cross_link_corpus,
                   iterative_probablity, ranged_sum, old_rank, page_rank,
                   transitionVars, sampleVars>>

\* the pass is over and the check succeeds: break and return
IterateReturn ==
    /\ pc = "i_for"
    /\ idx = Len(corpus) + 1
    /\ old_rank # Unbound
    /\ Converged(ValueOf(old_rank), ValueOf(page_rank))
    /\ pc' = "i_done"
    /\ UNCHANGED <<corpus, damping, error, iterateVars, transitionVars, sampleVars>>

NextIterate ==
    \/ IterateSetup
    \/ IterateSkipPage
    \/ IterateUpdatePage
    \/ IterateUnbound
    \/ IterateNextPass
    \/ IterateReturn

SpecIterate == InitIterate /\ [][NextIterate]_vars

(* ---------------------------- properties ------------------------------ *)

ValidDamping == 0 < damping /\ damping < DDen

RankSum == SumSeq(iterative_probablity)

\* C1: for a non-empty corpus and a damping factor in (0,1), the table
\* iterate_pagerank returns sums to 1.0 within 1e-3.
C1_IterateSumsToOne ==
    (pc = "i_done" /\ Len(corpus) >= 1 /\ ValidDamping)
        => abs(RankSum - Scale) <= Scale \div 1000

\* C2: for a non-empty corpus and a damping factor in (0,1), iterate_pagerank
\* leaves its loop only by returning a table with one entry per page, never
\* by an error.
C2_IterateReturnsTable ==
    (Len(corpus) >= 1 /\ ValidDamping /\ pc \notin {"i_call", "i_for"})
        => /\ pc = "i_done"
           /\ error = ""
           /\ DOMAIN iterative_probablity = Keys(corpus)

\* C3: for a page with at least one outbound link, transition_model returns
\* one entry per corpus page and the entries sum to 1.0 within 1e-4.
C3_TransitionSumsToOne ==
    (pc = "t_done" /\ ValidDamping /\ corpus[page] # {})
        => /\ DOMAIN prob_distribution = Keys(corpus)
           /\ abs(SumSeq(prob_distribution) - Scale) <= Scale \div Round4Den

\* number of recorded visits to page p, counted over the positions of samples
Visits(p) == Cardinality({k \in 1 .. Len(samples) : samples[k] = p})

\* C4: sample_pagerank performs exactly n draws, each on a corpus page; on
\* return every corpus page has the entry (visits to it) / n, pages never
\* visited have 0, the visits total n, every entry is in [0,1] and the
\* entries sum to 1.
C4_SampleCounts ==
    /\ pc \in {"s_loop", "s_done"} =>
          /\ Len(samples) = i
          /\ i <= n
          /\ \A k \in 1 .. Len(samples) : samples[k] \in Keys(corpus)
    /\ pc = "s_done" =>
          /\ Len(samples) = n
          /\ DOMAIN samples_dict = Keys(corpus)
          /\ \A p \in Keys(corpus) :
                /\ samples_dict[p] = Fraction(Visits(p), n)
                /\ 0 <= samples_dict[p].num
                /\ samples_dict[p].num <= samples_dict[p].den
          /\ SumSeq([p \in Keys(corpus) |-> samples_dict[p].num]) = n

\* sample_pagerank has returned a table in which some page was never visited
\* and some page was visited more than once
C4_Witness ==
    /\ pc = "s_done"
    /\ \E p \in Keys(corpus) : Visits(p) = 0 /\ samples_dict[p].num = 0
    /\ \E p \in Keys(corpus) : Visits(p) >= 2

\* C5: for a corpus of one page without links both estimators return the
\* table that maps the page to 1.0.
C5_SinglePageRankOne ==
    Len(corpus) = 1 =>
        /\ pc = "s_done" => samples_dict = <<Fraction(n, n)>>
        /\ pc \notin {"s_call", "s_loop", "i_call", "i_for"} =>
              \/ pc = "s_done"
              \/ pc = "i_done" /\ iterative_probablity = <<Scale>>

\* C6: transition_model fails with InvalidPage when page is not a key, and
\* transition_model and iterate_pagerank fail with InvalidParameter when the
\* damping factor is outside (0,1) or the corpus is empty; nothing is
\* returned in these cases.
C6_InvalidInputsFail ==
    /\ (pc \in {"t_done", "t_error"} /\ (~ValidDamping \/ Len(corpus) = 0)) =>
          /\ pc = "t_error"
          /\ error \in {"InvalidParameter", "InvalidPage"}
          /\ error = "InvalidPage" => page \notin Keys(corpus)
          /\ prob_distribution = NoTransition
    /\ (pc \in {"t_done", "t_error"} /\ ValidDamping /\ Len(corpus) # 0
            /\ page \notin Keys(corpus)) =>
          /\ pc = "t_error"
          /\ error = "InvalidPage"
          /\ prob_distribution = NoTransition
    /\ (pc \in {"i_done", "i_error"} /\ (~ValidDamping \/ Len(corpus) = 0)) =>
          /\ pc = "i_error"
          /\ error = "InvalidParameter"

\* C7: every rank iterate_pagerank holds is between 0 and 1, at every pass
\* and in the returned table.
C7_RanksInUnitInterval ==
    (pc \in {"i_for", "i_done"} /\ Len(corpus) >= 1 /\ ValidDamping) =>
        \A p \in Keys(corpus) :
            0 <= iterative_probablity[p] /\ iterative_probablity[p] <= Scale

\* C8: when iterate_pagerank returns, the rank of every page changed by less
\* than 0.0001 in the final pass.
C8_AllPagesConverged ==
    pc = "i_done" =>
        \A p \in Keys(corpus) :
            abs(iterative_probablity[p] - pass_start[p]) < Threshold

\* (1 - d)/N + d * (sum over q linking to p of r[q] / |outlinks(q)|), a page
\* without outbound links counting as a link to all N pages
ClaimedRank(c, d, r, p) ==
    LET N == Len(c)
        share(q) == IF c[q] = {} THEN r[q] \div N
                    ELSE IF p \in c[q] THEN r[q] \div Cardinality(c[q])
                    ELSE 0
    IN  BaseRank(c, d) + (d * SumSeq([q \in 1 .. N |-> share(q)])) \div DDen

\* C9: in each pass every page, a page without inbound links included, has
\* its rank set to the standard PageRank formula (evaluated on the ranks
\* current at its turn or on those of the start of the pass), in which a
\* page without outbound links contributes rank/N to every page.
C9_StandardFormula ==
    [][(pc = "i_for" /\ idx \in Keys(corpus) /\ idx' = idx + 1) =>
          \/ abs(iterative_probablity'[idx]
                   - ClaimedRank(corpus, damping, iterative_probablity, idx))
                <= Len(corpus) + 2
          \/ abs(iterative_probablity'[idx]
                   - ClaimedRank(corpus, damping, pass_start, idx))
                <= Len(corpus) + 2]_vars

\* the pages that have at least one inbound link
Updated(c) == {p \in Keys(c) : \E q \in Keys(c) : p \in c[q]}

Max(S) == CHOOSE x \in S : \A y \in S : y <= x

AtCheck == pc = "i_for" /\ idx = Len(corpus) + 1

====
